---- MODULE Spec2Model ----
(***************************************************************************)
(* Model of the pre-authorization service: the case pipeline of main.py    *)
(* (create_and_analyze_case, submit_insurer_decision), the DynamoDB        *)
(* helpers of dynamo_helpers.py, the Bedrock adapters of aws_services.py   *)
(* and the WebSocket ConnectionManager of websocket_manager.py.            *)
(*                                                                         *)
(* Every request handler is a coroutine on one event loop: an action of    *)
(* the model is the completion of one awaited call together with the code  *)
(* that runs up to the next await.                                         *)
(***************************************************************************)
EXTENDS Integers, Sequences, FiniteSets, TLC

\* ------------------------------------------------------------------ bounds
MaxTasks     == 2     \* request handlers that may overlap
MaxCreates   == 1     \* create-pre-auth requests of one run (Spec)
MaxDecisions == 2     \* submit-decision requests of one run (Spec)
MaxConns     == 1     \* WebSocket connections of one run (Spec)
RegistryConns == 3    \* WebSocket connections of one run (SpecRegistry)
RegistryCreates == 1  \* create-pre-auth requests of one run (SpecRegistry)
RegistryDecisions == 1 \* submit-decision requests of one run (SpecRegistry)
MaxStoreCalls == 4    \* direct calls of the store functions of one run (SpecStore)
MaxStoreIds == 2      \* case ids of the direct store calls (SpecStore)

Tasks == 1..MaxTasks

\* ------------------------------------------------------------ input values
Providers == {"d1", "d2"}
PatientId == "P1"
ProcedureCode == "CPT"
Notes == "notes"

\* A text is a sequence of characters; "n" stands for the newline.
NL == <<"n">>
TextA == <<"a">>
TextB == <<"b">>
TextEmpty == <<>>

\* The chunk lists a retrieval may return (texts in ranked order).
PolicyChunkLists == {<<>>, <<TextA, TextB>>}
ClinicalChunkLists == {<<>>, <<TextEmpty>>, <<TextB>>}

\* ------------------------------------------------------------- JSON values
\* A scalar is tagged with its Python type; a number keeps its numeral.
JStr(s)   == [t |-> "str", v |-> s]
JInt(s)   == [t |-> "int", v |-> s]
JFloat(s) == [t |-> "float", v |-> s]
JDec(s)   == [t |-> "Decimal", v |-> s]

EmptyObj == [k \in {} |-> JStr("")]
JNull == [isNull |-> TRUE, obj |-> EmptyObj]
JObj(f) == [isNull |-> FALSE, obj |-> f]

\* The scalars of a JSON value, as a function of its keys.
Scalars(j) == j.obj

\* json.loads(json.dumps(x), parse_float=Decimal): a float becomes a Decimal.
ParseFloatDecimal(s) == IF s.t = "float" THEN JDec(s.v) ELSE s

\* boto3 stores int and Decimal as the DynamoDB number type and returns every
\* number as a Decimal.
DynamoNumber(s) == IF s.t \in {"int", "Decimal"} THEN JDec(s.v) ELSE s

\* json.loads(json.dumps(x, default=str)): a Decimal becomes its string.
DefaultStr(s) == IF s.t = "Decimal" THEN JStr(s.v) ELSE s

HasDecimal(j) == \E k \in DOMAIN j.obj : j.obj[k].t = "Decimal"

\* An optional text attribute (None, or a string).
TNull == [isNull |-> TRUE, text |-> <<>>]
TStr(s) == [isNull |-> FALSE, text |-> s]

\* ------------------------------------------------------------------ state
VARIABLES
  table_ok,            \* dynamo_helpers.table is not None
  clients_ok,          \* aws_services.bedrock_agent_runtime / bedrock_runtime are not None
  store,               \* the DynamoDB table: case_id -> item (attribute -> value)
  now,                 \* the clock read by datetime.now()
  tasks,               \* the request handlers (coroutines) and their local variables
  active_connections,  \* ConnectionManager.active_connections: channel -> list
  ws,                  \* every WebSocket: its endpoint's state, its channel and
                       \* (history) the last update its client received
  failed,              \* history: <<channel, connection>> of every failed send
  s3,                  \* the S3 bucket: whether S3_BUCKET_NAME is set, and the keys it holds
  env                  \* the run's environment: the requests still to come and
                       \* the results the external services may give

vars == <<table_ok, clients_ok, store, now, tasks, active_connections, ws, failed, s3, env>>

\* ---------------------------------------------------------------- statuses
DecisionStatuses == {"APPROVED", "DENIED"}

\* ---------------------------------------------------------------- channels
InsurerQueue == "insurer-queue"
ProviderChannel(provider_id) == "provider-" \o provider_id
Channels == {InsurerQueue} \cup {ProviderChannel(p) : p \in Providers}

\* ---------------------------------------------------------- dynamo_helpers
EmptyItem == [k \in {} |-> 0]

\* Variant of create_new_case that stores the case without a status of PENDING.
create_new_case_Unmarked(case_id, patient_id, provider_id, procedure_code, timestamp) ==
  [case_id |-> case_id, patient_id |-> patient_id, provider_id |-> provider_id,
   procedure_code |-> procedure_code, status |-> "NEW",
   created_at |-> timestamp, last_updated |-> timestamp,
   analysis |-> JNull, policy_context |-> TNull, clinical_context |-> TNull]

create_new_case(case_id, patient_id, provider_id, procedure_code, timestamp) ==
  [case_id |-> case_id, patient_id |-> patient_id, provider_id |-> provider_id,
   procedure_code |-> procedure_code, status |-> "PENDING",
   created_at |-> timestamp, last_updated |-> timestamp,
   analysis |-> JNull, policy_context |-> TNull, clinical_context |-> TNull]

\* table.update_item with a SET expression: writes the named attributes of the
\* item with this key, creating the item when the key is absent.
\* Variant of the update that addresses the item with the lowest key.
UpdateItemSet_Lowest(st, case_id, attrs) ==
  IF DOMAIN st = {} THEN (case_id :> (("case_id" :> case_id) @@ attrs)) @@ st
  ELSE LET low == CHOOSE i \in DOMAIN st : \A j \in DOMAIN st : i <= j
       IN [st EXCEPT ![low] = attrs @@ @]

UpdateItemSet(st, case_id, attrs) ==
  IF case_id \in DOMAIN st
    THEN [st EXCEPT ![case_id] = attrs @@ @]
    ELSE (case_id :> (("case_id" :> case_id) @@ attrs)) @@ st

\* analysis_decimal, as boto3 then stores it.
AnalysisDecimal(analysis_payload) ==
  [analysis_payload EXCEPT !.obj =
     [k \in DOMAIN Scalars(analysis_payload) |->
        DynamoNumber(ParseFloatDecimal(Scalars(analysis_payload)[k]))]]

update_case_with_analysis(st, case_id, status, analysis_payload, policy_context, clinical_context, timestamp) ==
  UpdateItemSet(st, case_id,
    [status |-> status, analysis |-> AnalysisDecimal(analysis_payload),
     policy_context |-> TStr(policy_context),
     clinical_context |-> TStr(clinical_context), last_updated |-> timestamp])

\* SET #a.#notes = :n needs the item to exist and its analysis to be a map;
\* DynamoDB rejects the update otherwise (invalid document path).
DecisionPathValid(st, case_id) ==
  /\ case_id \in DOMAIN st
  /\ "analysis" \in DOMAIN st[case_id]
  /\ ~st[case_id].analysis.isNull

update_case_decision(st, case_id, final_status, insurer_notes, timestamp) ==
  [st EXCEPT ![case_id] =
     [@ EXCEPT !.status = final_status, !.last_updated = timestamp,
               !.analysis = JObj(("insurer_decision_notes" :> JStr(insurer_notes))
                                 @@ ("insurer_decision_at" :> JStr(timestamp))
                                 @@ @.obj)]]

\* json.dumps(item, cls=DecimalEncoder): DecimalEncoder.default converts only a
\* float and hands a Decimal to the base class, which raises TypeError.
DecimalEncoderRaises(item) == HasDecimal(item.analysis)

\* json.loads(json.dumps(updated_item, default=str))
\* Variant of the conversion that relabels the case as ready for review.
ToFinalCaseData_Relabels(item) ==
  [item EXCEPT !.status = "APPROVED_READY",
               !.analysis.obj =
     [k \in DOMAIN Scalars(item.analysis) |-> DefaultStr(Scalars(item.analysis)[k])]]

ToFinalCaseData(item) ==
  [item EXCEPT !.analysis.obj =
     [k \in DOMAIN Scalars(item.analysis) |-> DefaultStr(Scalars(item.analysis)[k])]]

\* ------------------------------------------------------------ aws_services
\* retrieve_from_knowledge_base: the chunk texts of a successful retrieval; an
\* empty list with a message in generated_text when the upstream call raises.
RetrieveDiagnostic == "An error occurred while retrieving from the Knowledge Base"

\* Variant of retrieve_from_knowledge_base that returns the empty list of an
\* upstream failure without a message.
retrieve_NoDiagnostic(upstream_ok, chunks) ==
  [generated_text |-> "", source_chunks |-> IF upstream_ok THEN chunks ELSE <<>>]

retrieve_from_knowledge_base(upstream_ok, chunks) ==
  IF upstream_ok
    THEN [generated_text |-> "", source_chunks |-> chunks]
    ELSE [generated_text |-> RetrieveDiagnostic, source_chunks |-> <<>>]

\* A parsed model output: a JSON object with or without the keys status and
\* analysis, and its other keys.
Parsed(hasStatus, status, hasAnalysis, analysis, rest) ==
  [hasStatus |-> hasStatus, status |-> status,
   hasAnalysis |-> hasAnalysis, analysis |-> analysis, rest |-> rest]

NoResult == Parsed(FALSE, "", FALSE, JNull, EmptyObj)

AgentError(message) ==
  Parsed(TRUE, "AGENT_ERROR", TRUE, JObj("error" :> JStr(message)), EmptyObj)

\* The JSON objects the language model may emit.
ModelObjects ==
  { Parsed(TRUE, "MISSING_INFORMATION", TRUE, JObj("crit" :> JStr("unmet")), EmptyObj),
    Parsed(TRUE, "APPROVED_READY", TRUE,
           JObj(("crit" :> JStr("met")) @@ ("score" :> JFloat("0.9"))), EmptyObj),
    Parsed(TRUE, "APPROVED_READY", TRUE, JObj("crit" :> JStr("met")), EmptyObj),
    Parsed(TRUE, "READY_FOR_SUBMISSION", TRUE, JObj("crit" :> JStr("met")), EmptyObj),
    Parsed(TRUE, "READY_FOR_SUBMISSION", TRUE, JNull, EmptyObj),
    Parsed(FALSE, "", FALSE, JNull, "procedure_analyzed" :> JStr(ProcedureCode)),
    Parsed(TRUE, "APPROVED", TRUE, JObj("crit" :> JStr("met")), EmptyObj) }

\* What one model invocation does: the call raises, the text holds no JSON
\* object, or the text parses to an object.
AgentOutcomes ==
  {[kind |-> "invoke_error", obj |-> AgentError("")],
   [kind |-> "no_json", obj |-> AgentError("")]}
  \cup {[kind |-> "parsed", obj |-> o] : o \in ModelObjects}

invoke_claude_agent(outcome) ==
  CASE outcome.kind = "invoke_error" -> AgentError("Error invoking agent model")
    [] outcome.kind = "no_json" -> AgentError("Agent failed to produce valid JSON output.")
    [] OTHER -> outcome.obj

\* ------------------------------------------------------- websocket_manager
RECURSIVE RemoveFirst(_, _)
RemoveFirst(list, x) ==
  IF list = <<>> THEN <<>>
  ELSE IF Head(list) = x THEN Tail(list)
  ELSE <<Head(list)>> \o RemoveFirst(Tail(list), x)

Members(list) == {list[i] : i \in 1..Len(list)}

\* Variant of connect that starts the channel's list afresh.
connect_Overwrites(reg, channel, websocket) == (channel :> <<websocket>>) @@ reg

\* Variant of connect that appends the connection twice.
connect_Twice(reg, channel, websocket) ==
  IF channel \notin DOMAIN reg
    THEN (channel :> <<websocket, websocket>>) @@ reg
    ELSE [reg EXCEPT ![channel] = Append(Append(@, websocket), websocket)]

connect(reg, channel, websocket) ==
  IF channel \notin DOMAIN reg
    THEN (channel :> <<websocket>>) @@ reg
    ELSE [reg EXCEPT ![channel] = Append(@, websocket)]

\* Variant of disconnect that drops the head of the list when the connection
\* is not in it.
disconnect_DropsHead(reg, channel, websocket) ==
  IF channel \notin DOMAIN reg THEN reg
  ELSE IF websocket \in Members(reg[channel])
    THEN [reg EXCEPT ![channel] = RemoveFirst(@, websocket)]
  ELSE IF reg[channel] = <<>> THEN reg
  ELSE [reg EXCEPT ![channel] = Tail(@)]

\* Variant of disconnect that leaves the connection in the list.
disconnect_Keeps(reg, channel, websocket) == reg

disconnect(reg, channel, websocket) ==
  IF channel \in DOMAIN reg
    THEN [reg EXCEPT ![channel] = RemoveFirst(@, websocket)]
    ELSE reg

\* Variant of the snapshot that takes the list of whichever channel has members.
Snapshot_AnyChannel(reg, channel) ==
  IF DOMAIN reg = {} THEN <<>> ELSE reg[CHOOSE ch \in DOMAIN reg : TRUE]

\* websocket_manager.py:34,43: the copy of the channel's list that a
\* broadcast takes; nothing for a channel the registry does not know.
Snapshot(reg, channel) ==
  IF channel \in DOMAIN reg THEN reg[channel] ELSE <<>>

\* Variant of the loop that iterates the registry's own list, not a copy of it.
IterationList_Live(tk, reg) ==
  IF tk.chan \in DOMAIN reg THEN reg[tk.chan] ELSE <<>>

\* The list a broadcast iterates: the copy taken when the loop starts.
IterationList(tk, reg) == tk.snap

\* ----------------------------------------------------------------- main.py
NoExc == [type |-> "", site |-> ""]
Exc(type, site) == [type |-> type, site |-> site]
NoResp == [code |-> 0, exc |-> NoExc, body |-> EmptyItem]

\* FastAPI's answer to an exception leaving the handler: an HTTPException keeps
\* its status code, anything else is a 500 of the global exception handler.
Raised(exc) ==
  [code |-> IF exc.type = "HTTPException404" THEN 404 ELSE 500,
   exc |-> exc, body |-> EmptyItem]
Returned(item) == [code |-> 200, exc |-> NoExc, body |-> item]

IdleTask ==
  [kind |-> "none", pc |-> "idle", case_id |-> 0, provider_id |-> "",
   policy_chunks |-> <<>>, policy_context |-> <<>>, clinical_context |-> <<>>,
   final_status |-> "", analysis_payload |-> JNull, exc |-> NoExc,
   item |-> EmptyItem, queue |-> <<>>, chan |-> "", snap |-> <<>>, idx |-> 0,
   cur |-> 0, bcalls |-> <<>>, attempts |-> <<>>, resp |-> NoResp,
   policy_generated_text |-> "", clinical_generated_text |-> "", faults |-> {},
   analysis_json |-> NoResult]

\* "\n".join(texts)
RECURSIVE Join(_)
Join(texts) ==
  IF texts = <<>> THEN <<>>
  ELSE IF Len(texts) = 1 THEN texts[1]
  ELSE texts[1] \o NL \o Join(Tail(texts))

\* Variant of the test that looks at the policy context alone.
ContextMissing_PolicyOnly(policy_context, clinical_context) ==
  policy_context = <<>>

\* main.py:150
ContextMissing(policy_context, clinical_context) ==
  policy_context = <<>> \/ clinical_context = <<>>

\* main.py:171-172
\* Variant of the status default that leaves a result without status PENDING.
FinalStatus_Pending(analysis_json) ==
  IF analysis_json.hasStatus THEN analysis_json.status ELSE "PENDING"

FinalStatus(analysis_json) ==
  IF analysis_json.hasStatus THEN analysis_json.status ELSE "AGENT_ERROR"

WholeObject(analysis_json) ==
  JObj((IF analysis_json.hasStatus
          THEN "status" :> JStr(analysis_json.status) ELSE EmptyObj)
       @@ analysis_json.rest)

AnalysisPayload(analysis_json) ==
  IF analysis_json.hasAnalysis THEN analysis_json.analysis
  ELSE WholeObject(analysis_json)

\* Variant of the routing that pushes APPROVED_READY to the insurer queue alone.
BroadcastTargets_InsurerOnly(final_status, provider_id) ==
  IF final_status = "MISSING_INFORMATION" THEN <<ProviderChannel(provider_id)>>
  ELSE IF final_status = "APPROVED_READY" THEN <<InsurerQueue>>
  ELSE <<>>

\* main.py:193-204: the channels the pipeline broadcasts to, in order.
BroadcastTargets(final_status, provider_id) ==
  IF final_status = "MISSING_INFORMATION" THEN <<ProviderChannel(provider_id)>>
  ELSE IF final_status = "APPROVED_READY"
    THEN <<InsurerQueue, ProviderChannel(provider_id)>>
  ELSE <<>>

\* Variant of the routing that also pushes a decision to the insurer queue.
DecisionTargets_AlsoInsurer(provider_id) ==
  <<InsurerQueue, ProviderChannel(provider_id)>>

\* main.py:295-296
DecisionTargets(provider_id) == <<ProviderChannel(provider_id)>>

\* main.py:216-223: the update the top-level handler makes.
ErrorPayload(exc) == JObj("error" :> JStr(exc.type))

\* Variant of the return that fails the request when a send had failed.
Respond_FailsOnSendError(tk) ==
  IF \E i \in 1..Len(tk.attempts) : ~tk.attempts[i].ok
    THEN [tk EXCEPT !.pc = "done", !.resp = Raised(Exc("WebSocketError", "broadcast"))]
    ELSE [tk EXCEPT !.pc = "done", !.resp = Returned(tk.item)]

\* main.py:206-211, 297-302: whatever the broadcasts did, the handler returns
\* the updated case.
Respond(tk) == [tk EXCEPT !.pc = "done", !.resp = Returned(tk.item)]

\* Runs the broadcasts queued by a handler up to its next await: a broadcast
\* to a channel that is unknown, or whose list is empty, awaits nothing.
\* Each call is logged in bcalls with the membership it found, the sends that
\* had failed before it and the last update each member had received before
\* it (history, for the properties). The faults field
\* of a handler is history too: the external calls that failed under it.
RECURSIVE RunBroadcasts(_, _, _, _)
RunBroadcasts(tk, reg, failed_before, sockets) ==
  IF tk.queue = <<>>
    THEN Respond(tk)
    ELSE LET channel == Head(tk.queue)
             copy == Snapshot(reg, channel)
             tk1 == [tk EXCEPT !.queue = Tail(@), !.chan = channel,
                               !.snap = copy, !.idx = 1,
                               !.bcalls = Append(@,
                                  [chan |-> channel, data |-> tk.item,
                                   known |-> channel \in DOMAIN reg,
                                   members |-> Snapshot(reg, channel),
                                   registered |-> IF channel \in DOMAIN reg
                                                    THEN reg[channel] ELSE <<>>,
                                   failed_before |-> failed_before,
                                   received_before |->
                                     [c \in Members(copy) |-> sockets[c].received]])]
         IN IF copy = <<>>
              THEN RunBroadcasts(tk1, reg, failed_before, sockets)
              ELSE [tk1 EXCEPT !.pc = "sending", !.cur = copy[1]]

\* A WebSocket before its endpoint runs; the bucket before any upload.
NoUpdate == [case_id |-> 0, status |-> ""]
NewSocket == [state |-> "new", channel |-> "", received |-> NoUpdate]
EmptyBucket == [configured |-> TRUE, objects |-> {}]

\* ------------------------------------------------- the agent's output text
\* aws_services.py:183-205 works on the characters of the model's text.  A text
\* is a sequence of tokens: the two braces, "s" for the member
\* "status":"MISSING_INFORMATION", "a" for the key "analysis": (an object
\* follows), and "x" for any other character.
MaxTextLen == 5
Tokens == {"{", "}", "s", "a", "x"}
Texts == UNION {[1..n -> Tokens] : n \in 0..MaxTextLen}

\* str.find and str.rfind: 0-based index of the first / last occurrence, -1
\* when there is none.
find(text, ch) ==
  IF \E i \in 1..Len(text) : text[i] = ch
    THEN (CHOOSE i \in 1..Len(text) :
            text[i] = ch /\ \A j \in 1..(i - 1) : text[j] # ch) - 1
    ELSE -1

\* Variant of rfind that stops at the first closing brace.
rfind_First(text, ch) == find(text, ch)

rfind(text, ch) ==
  IF \E i \in 1..Len(text) : text[i] = ch
    THEN (CHOOSE i \in 1..Len(text) :
            text[i] = ch /\ \A j \in (i + 1)..Len(text) : text[j] # ch) - 1
    ELSE -1

\* text[first:last+1]
Slice(text, first, last) == SubSeq(text, first + 1, last + 1)

\* json.loads on a token sequence: an object is "{" "}" or "{" member "}",
\* a member is "s" or "a" followed by an object.  ParseObject reads one object
\* at position i (1-based) and gives the position after it.
RECURSIVE ParseObject(_, _)
ParseObject(s, i) ==
  LET bad == [ok |-> FALSE, val |-> EmptyObj, next |-> i]
      at(k) == IF k \in 1..Len(s) THEN s[k] ELSE ""
  IN IF at(i) # "{" THEN bad
     ELSE IF at(i + 1) = "}"
       THEN [ok |-> TRUE, val |-> EmptyObj, next |-> i + 2]
     ELSE IF at(i + 1) = "s" /\ at(i + 2) = "}"
       THEN [ok |-> TRUE, val |-> "status" :> JStr("MISSING_INFORMATION"), next |-> i + 3]
     ELSE IF at(i + 1) = "a"
       THEN LET r == ParseObject(s, i + 2)
            IN IF r.ok /\ at(r.next) = "}"
                 THEN [ok |-> TRUE, val |-> "analysis" :> JObj(r.val), next |-> r.next + 1]
                 ELSE bad
     ELSE bad

\* json.loads(cleaned_text): the whole text must be one object (anything after
\* it is "Extra data"); the dict is given in the shape the orchestrator reads.
json_loads(s) ==
  LET r == ParseObject(s, 1)
  IN IF r.ok /\ r.next = Len(s) + 1
       THEN [ok |-> TRUE,
             val |-> Parsed("status" \in DOMAIN r.val,
                            IF "status" \in DOMAIN r.val THEN r.val["status"].v ELSE "",
                            "analysis" \in DOMAIN r.val,
                            IF "analysis" \in DOMAIN r.val THEN r.val["analysis"] ELSE JNull,
                            EmptyObj)]
       ELSE [ok |-> FALSE, val |-> NoResult]

\* aws_services.py:183-205: what invoke_claude_agent returns for the text the
\* model produced.  Both raise sites are inside the try whose except clauses
\* return a result, so the value is always a result.
ParseAgentOutput(agent_output_text) ==
  LET first_brace == find(agent_output_text, "{")
      last_brace == rfind(agent_output_text, "}")
      no_json == AgentError("Agent failed to produce valid JSON output.")
  IN IF first_brace = -1 \/ last_brace = -1 \/ last_brace <= first_brace
       THEN no_json
       ELSE LET cleaned_text == Slice(agent_output_text, first_brace, last_brace)
                loaded == json_loads(cleaned_text)
            IN IF loaded.ok THEN loaded.val ELSE no_json

\* ------------------------------------------------------------------- Init
Init ==
  /\ table_ok \in BOOLEAN
  /\ clients_ok \in BOOLEAN
  /\ store = [k \in {} |-> EmptyItem]
  /\ now = 0
  /\ tasks = [t \in Tasks |-> IdleTask]
  /\ active_connections = [ch \in {} |-> <<>>]
  /\ ws = [c \in 1..MaxConns |-> NewSocket]
  /\ failed = {}
  /\ s3 = EmptyBucket
  /\ env = [creates |-> MaxCreates, decisions |-> MaxDecisions, load |-> "cases"]

Free(t) == tasks[t].pc \in {"idle", "done"}

StoreExc(site) == Exc(IF table_ok THEN "ClientError" ELSE "ValueError", site)

\* ------------------------------------------------- create_and_analyze_case
\* main.py:104-110: the request arrives and create_new_case runs; a failure
\* here is outside the try block and leaves the handler as it is.
CreateCase(t, provider_id, ok) ==
  /\ Free(t)
  /\ env.creates > 0
  /\ env' = [env EXCEPT !.creates = @ - 1]
  /\ LET case_id == Cardinality(DOMAIN store) + 1
         started == [IdleTask EXCEPT !.kind = "create", !.provider_id = provider_id]
     IN IF table_ok /\ ok
          THEN /\ now' = now + 1
               /\ store' = (case_id :> create_new_case(case_id, PatientId, provider_id,
                                                      ProcedureCode, now')) @@ store
               /\ tasks' = [tasks EXCEPT ![t] =
                              [started EXCEPT !.pc = "retrieve_policy",
                                              !.case_id = case_id]]
          ELSE /\ now' = IF table_ok THEN now + 1 ELSE now
               /\ store' = store
               /\ tasks' = [tasks EXCEPT ![t] =
                              [started EXCEPT !.pc = "done",
                                              !.resp = Raised(StoreExc("create_new_case"))]]
  /\ UNCHANGED <<s3, table_ok, clients_ok, active_connections, ws, failed>>

\* main.py:127-131
RetrievePolicy(t, upstream_ok, chunks) ==
  /\ tasks[t].pc = "retrieve_policy"
  /\ tasks' = [tasks EXCEPT ![t] =
       IF ~clients_ok
         THEN [@ EXCEPT !.pc = "handler",
                        !.exc = Exc("ValueError", "retrieve_from_knowledge_base")]
         ELSE LET policy_rag_result == retrieve_from_knowledge_base(upstream_ok, chunks)
              IN [@ EXCEPT !.pc = "retrieve_clinical",
                           !.policy_chunks = policy_rag_result.source_chunks,
                           !.policy_generated_text = policy_rag_result.generated_text,
                           !.faults = IF upstream_ok THEN @
                                      ELSE @ \cup {"policy_retrieve"}]]
  /\ UNCHANGED <<s3, table_ok, clients_ok, store, now, active_connections, ws, failed, env>>

\* main.py:132-159: the clinical retrieval, the two contexts and the check
\* that neither is empty.
RetrieveClinical(t, upstream_ok, chunks) ==
  /\ tasks[t].pc = "retrieve_clinical"
  /\ LET tk == tasks[t]
         clinical_rag_result == retrieve_from_knowledge_base(upstream_ok, chunks)
         clinical_chunks == clinical_rag_result.source_chunks
         policy_context == IF tk.policy_chunks # <<>> THEN Join(tk.policy_chunks)
                           ELSE <<>>
         clinical_context == Join(clinical_chunks)
         tk1 == [tk EXCEPT !.policy_context = policy_context,
                           !.clinical_context = clinical_context,
                           !.policy_chunks = <<>>,
                           !.clinical_generated_text = clinical_rag_result.generated_text,
                           !.faults = IF upstream_ok THEN @
                                      ELSE @ \cup {"clinical_retrieve"}]
     IN tasks' = [tasks EXCEPT ![t] =
          IF ~clients_ok
            THEN [tk EXCEPT !.pc = "handler",
                            !.exc = Exc("ValueError", "retrieve_from_knowledge_base")]
          ELSE IF ContextMissing(policy_context, clinical_context)
            THEN [tk1 EXCEPT !.pc = "handler",
                             !.exc = Exc("HTTPException404", "empty_context")]
          ELSE [tk1 EXCEPT !.pc = "analyze"]]
  /\ UNCHANGED <<s3, table_ok, clients_ok, store, now, active_connections, ws, failed, env>>

\* main.py:164-172
Analyze(t, outcome) ==
  /\ tasks[t].pc = "analyze"
  /\ LET analysis_json == invoke_claude_agent(outcome)
     IN tasks' = [tasks EXCEPT ![t] =
          IF ~clients_ok
            THEN [@ EXCEPT !.pc = "handler",
                           !.exc = Exc("ValueError", "invoke_claude_agent")]
            ELSE [@ EXCEPT !.pc = "update",
                           !.analysis_json = analysis_json,
                           !.final_status = FinalStatus(analysis_json),
                           !.analysis_payload = AnalysisPayload(analysis_json),
                           !.faults = IF outcome.kind = "parsed" THEN @
                                      ELSE @ \cup {outcome.kind}]]
  /\ UNCHANGED <<s3, table_ok, clients_ok, store, now, active_connections, ws, failed, env>>

\* main.py:176-183: the persisting update, run in the thread pool.
UpdateCase(t, ok) ==
  /\ tasks[t].pc = "update"
  /\ LET tk == tasks[t]
     IN IF table_ok /\ ok
          THEN /\ now' = now + 1
               /\ store' = update_case_with_analysis(store, tk.case_id, tk.final_status,
                              tk.analysis_payload, tk.policy_context,
                              tk.clinical_context, now')
               /\ tasks' = [tasks EXCEPT ![t] =
                              [tk EXCEPT !.pc = "updated", !.item = store'[tk.case_id]]]
          ELSE /\ now' = IF table_ok THEN now + 1 ELSE now
               /\ store' = store
               /\ tasks' = [tasks EXCEPT ![t] =
                              [tk EXCEPT !.pc = "handler",
                                         !.exc = StoreExc("update_case_with_analysis")]]
  /\ UNCHANGED <<s3, table_ok, clients_ok, active_connections, ws, failed, env>>

\* main.py:188-211: the handler resumes with updated_item, converts it and
\* starts the broadcasts.
AfterUpdate(t) ==
  /\ tasks[t].pc = "updated"
  /\ LET final_case_data == ToFinalCaseData(tasks[t].item)
         targets == BroadcastTargets(final_case_data.status, final_case_data.provider_id)
     IN tasks' = [tasks EXCEPT ![t] =
          RunBroadcasts([@ EXCEPT !.item = final_case_data, !.queue = targets],
                        active_connections, failed, ws)]
  /\ UNCHANGED <<s3, table_ok, clients_ok, store, now, active_connections, ws, failed, env>>

\* main.py:213-225: the top-level except clause.
HandleError(t, ok) ==
  /\ tasks[t].pc = "handler"
  /\ LET tk == tasks[t]
     IN IF table_ok /\ ok
          THEN /\ now' = now + 1
               /\ store' = update_case_with_analysis(store, tk.case_id, "SYSTEM_ERROR",
                              ErrorPayload(tk.exc), <<>>, <<>>, now')
               /\ tasks' = [tasks EXCEPT ![t] =
                              [tk EXCEPT !.pc = "done", !.resp = Raised(tk.exc)]]
          ELSE /\ now' = IF table_ok THEN now + 1 ELSE now
               /\ store' = store
               /\ tasks' = [tasks EXCEPT ![t] =
                              [tk EXCEPT !.pc = "done",
                                 !.resp = Raised(StoreExc("handler_update"))]]
  /\ UNCHANGED <<s3, table_ok, clients_ok, active_connections, ws, failed, env>>

\* ------------------------------------------------- submit_insurer_decision
\* main.py:284-290, 304-307 with dynamo_helpers.py:227-267
SubmitDecision(t, case_id, decision, ok) ==
  /\ Free(t)
  /\ env.decisions > 0
  /\ env' = [env EXCEPT !.decisions = @ - 1]
  /\ LET started == [IdleTask EXCEPT !.kind = "decide", !.case_id = case_id,
                                     !.final_status = decision,
                                     !.faults = IF ok THEN {} ELSE {"store"}]
         error(code, type) ==
           [started EXCEPT !.pc = "done",
              !.resp = [code |-> code, exc |-> Exc(type, "update_case_decision"),
                        body |-> EmptyItem]]
     IN IF ~table_ok
          THEN /\ UNCHANGED <<now, store>>
               /\ tasks' = [tasks EXCEPT ![t] = error(404, "ValueError")]
        ELSE IF ok /\ DecisionPathValid(store, case_id)
          THEN /\ now' = now + 1
               /\ store' = update_case_decision(store, case_id, decision, Notes, now')
               /\ tasks' = [tasks EXCEPT ![t] =
                    IF DecimalEncoderRaises(store'[case_id])
                      THEN error(500, "TypeError")
                      ELSE [started EXCEPT !.pc = "decided", !.item = store'[case_id]]]
        ELSE /\ now' = now + 1
             /\ store' = store
             /\ tasks' = [tasks EXCEPT ![t] = error(500, "ClientError")]
  /\ UNCHANGED <<s3, table_ok, clients_ok, active_connections, ws, failed>>

\* main.py:293-302
AfterDecision(t) ==
  /\ tasks[t].pc = "decided"
  /\ LET updated_item == tasks[t].item
     IN tasks' = [tasks EXCEPT ![t] =
          RunBroadcasts([@ EXCEPT !.queue = DecisionTargets(updated_item.provider_id)],
                        active_connections, failed, ws)]
  /\ UNCHANGED <<s3, table_ok, clients_ok, store, now, active_connections, ws, failed, env>>

\* ------------------------------------------- ConnectionManager.broadcast
\* websocket_manager.py:43-50: one awaited send_text completes; a failure
\* removes the connection; the loop moves on, and after the last connection
\* the handler runs on to its next await.
Send(t, ok) ==
  /\ tasks[t].pc = "sending"
  /\ ok => ws[tasks[t].cur].state = "open"
  /\ LET tk == tasks[t]
         reg == IF ok THEN active_connections
                ELSE disconnect(active_connections, tk.chan, tk.cur)
         tk1 == [tk EXCEPT !.idx = @ + 1,
                           !.attempts = Append(@, [chan |-> tk.chan, conn |-> tk.cur,
                                                   ok |-> ok])]
         list == IterationList(tk1, reg)
     IN /\ active_connections' = reg
        /\ failed' = IF ok THEN failed ELSE failed \cup {<<tk.chan, tk.cur>>}
        /\ ws' = IF ok
                   THEN [ws EXCEPT ![tk.cur].received =
                           [case_id |-> tk.item.case_id, status |-> tk.item.status]]
                   ELSE ws
        /\ tasks' = [tasks EXCEPT ![t] =
             IF tk1.idx <= Len(list)
               THEN [tk1 EXCEPT !.cur = list[tk1.idx]]
               ELSE RunBroadcasts(tk1, reg, failed', ws')]
  /\ UNCHANGED <<s3, table_ok, clients_ok, store, now, env>>

\* ----------------------------------------------------- websocket_endpoint
\* main.py:399 with websocket_manager.py:13-21
WsConnect(c, channel, ok) ==
  /\ ws[c].state = "new"
  /\ IF ok
       THEN /\ ws' = [ws EXCEPT ![c] = [@ EXCEPT !.state = "open", !.channel = channel]]
            /\ active_connections' = connect(active_connections, channel, c)
       ELSE /\ ws' = [ws EXCEPT ![c] = [@ EXCEPT !.state = "closed", !.channel = channel]]
            /\ UNCHANGED active_connections
  /\ UNCHANGED <<s3, table_ok, clients_ok, store, now, tasks, failed, env>>

\* main.py:400-409 with websocket_manager.py:23-30
WsDisconnect(c) ==
  /\ ws[c].state = "open"
  /\ ws' = [ws EXCEPT ![c].state = "closed"]
  /\ active_connections' = disconnect(active_connections, ws[c].channel, c)
  /\ UNCHANGED <<s3, table_ok, clients_ok, store, now, tasks, failed, env>>

\* ------------------------------------------------------------------- Next
\* The case ids a decision request may name: the stored ones and an absent one.
DecisionIds == DOMAIN store \cup {Cardinality(DOMAIN store) + 1}

\* The inputs and external results of a run. Under the "registry" load there
\* are more connections, and to keep the run small one provider, services
\* that do not fail and an analysis that always ends in a broadcast status
\* and holds no number.
\* Under the "concurrent" load there are more requests in flight; the services
\* may fail, and the other inputs are those of the "registry" load.
BroadcastOutcomes ==
  {o \in AgentOutcomes :
     /\ BroadcastTargets(FinalStatus(invoke_claude_agent(o)), "d1") # <<>>
     /\ ~HasDecimal(AnalysisDecimal(AnalysisPayload(invoke_claude_agent(o))))}
EnvProviders == IF env.load = "cases" THEN Providers ELSE {"d1"}
EnvOks == IF env.load \in {"cases", "concurrent"} THEN BOOLEAN ELSE {TRUE}
EnvPolicyLists == IF env.load = "cases" THEN PolicyChunkLists ELSE {<<TextA, TextB>>}
EnvClinicalLists == IF env.load = "cases" THEN ClinicalChunkLists ELSE {<<>>, <<TextB>>}
EnvOutcomes == IF env.load = "cases" THEN AgentOutcomes ELSE BroadcastOutcomes

Next ==
  \/ \E t \in Tasks, p \in EnvProviders, ok \in EnvOks : CreateCase(t, p, ok)
  \/ \E t \in Tasks, up \in EnvOks :
       \E chunks \in (IF up THEN EnvPolicyLists ELSE {<<>>}) :
          RetrievePolicy(t, up, chunks)
  \/ \E t \in Tasks, up \in EnvOks :
       \E chunks \in (IF up THEN EnvClinicalLists ELSE {<<>>}) :
          RetrieveClinical(t, up, chunks)
  \/ \E t \in Tasks, outcome \in EnvOutcomes : Analyze(t, outcome)
  \/ \E t \in Tasks, ok \in EnvOks : UpdateCase(t, ok)
  \/ \E t \in Tasks : AfterUpdate(t)
  \/ \E t \in Tasks, ok \in EnvOks : HandleError(t, ok)
  \/ \E t \in Tasks, id \in DecisionIds, d \in DecisionStatuses, ok \in EnvOks :
       SubmitDecision(t, id, d, ok)
  \/ \E t \in Tasks : AfterDecision(t)
  \/ \E t \in Tasks, ok \in BOOLEAN : Send(t, ok)
  \/ \E c \in DOMAIN ws, ch \in Channels, ok \in EnvOks : WsConnect(c, ch, ok)
  \/ \E c \in DOMAIN ws : WsDisconnect(c)

Spec == Init /\ [][Next]_vars

\* One step of handler t after it took its request: the call it awaits
\* returns or raises and the handler runs on to its next await.
HandlerStep(t) ==
  \/ \E up \in EnvOks : \E chunks \in (IF up THEN EnvPolicyLists ELSE {<<>>}) :
       RetrievePolicy(t, up, chunks)
  \/ \E up \in EnvOks : \E chunks \in (IF up THEN EnvClinicalLists ELSE {<<>>}) :
       RetrieveClinical(t, up, chunks)
  \/ \E outcome \in EnvOutcomes : Analyze(t, outcome)
  \/ \E ok \in EnvOks : UpdateCase(t, ok)
  \/ AfterUpdate(t)
  \/ \E ok \in EnvOks : HandleError(t, ok)
  \/ AfterDecision(t)
  \/ \E ok \in BOOLEAN : Send(t, ok)

\* Two createAndAnalyze requests and one decision, with one connection: the
\* handlers of the requests overlap in every order of their awaits.
ConcurrentCreates == 2
ConcurrentDecisions == 1

InitConcurrent ==
  /\ table_ok = TRUE
  /\ clients_ok = TRUE
  /\ store = [k \in {} |-> EmptyItem]
  /\ now = 0
  /\ tasks = [t \in Tasks |-> IdleTask]
  /\ active_connections = [ch \in {} |-> <<>>]
  /\ ws = [c \in 1..MaxConns |-> NewSocket]
  /\ failed = {}
  /\ s3 = EmptyBucket
  /\ env = [creates |-> ConcurrentCreates, decisions |-> ConcurrentDecisions,
            load |-> "concurrent"]

SpecConcurrent == InitConcurrent /\ [][Next]_vars

\* Every awaited call eventually returns or raises, and the event loop then
\* resumes the handler.
SpecLive == Spec /\ \A t \in Tasks : WF_vars(HandlerStep(t))

\* The registry under load.
InitRegistry ==
  /\ table_ok = TRUE
  /\ clients_ok = TRUE
  /\ store = [k \in {} |-> EmptyItem]
  /\ now = 0
  /\ tasks = [t \in Tasks |-> IdleTask]
  /\ active_connections = [ch \in {} |-> <<>>]
  /\ ws = [c \in 1..RegistryConns |-> NewSocket]
  /\ failed = {}
  /\ s3 = EmptyBucket
  /\ env = [creates |-> RegistryCreates, decisions |-> RegistryDecisions,
            load |-> "registry"]

SpecRegistry == InitRegistry /\ [][Next]_vars

\* -------------------------------------------------- the case store alone
\* The store functions of dynamo_helpers.py called directly, with any case id:
\* the last call and its result are kept in handler 1.
StoreStatuses == {"READY_FOR_SUBMISSION", "SYSTEM_ERROR"}
StorePayloads ==
  {JObj("crit" :> JStr("met")), JObj("score" :> JFloat("0.9")), JObj("count" :> JInt("3"))}
StoreIds == 1..MaxStoreIds

StoreCall(name, case_id, ok) ==
  [IdleTask EXCEPT !.kind = name, !.pc = "done", !.case_id = case_id,
                   !.faults = IF ok THEN {} ELSE {"store"}]

\* dynamo_helpers.py:51-80
StoreCreate(provider_id, ok) ==
  /\ now < MaxStoreCalls
  /\ StoreIds \ DOMAIN store # {}
  /\ LET case_id == CHOOSE i \in StoreIds \ DOMAIN store :
                       \A j \in StoreIds \ DOMAIN store : i <= j
         call == StoreCall("create_new_case", case_id, ok)
     IN IF table_ok /\ ok
          THEN /\ now' = now + 1
               /\ store' = (case_id :> create_new_case(case_id, PatientId, provider_id,
                                                      ProcedureCode, now')) @@ store
               /\ tasks' = [tasks EXCEPT ![1] =
                              [call EXCEPT !.item = store'[case_id],
                                           !.resp = Returned(store'[case_id])]]
          ELSE /\ now' = now + 1
               /\ store' = store
               /\ tasks' = [tasks EXCEPT ![1] =
                              [call EXCEPT !.resp = Raised(StoreExc("create_new_case"))]]
  /\ UNCHANGED <<s3, table_ok, clients_ok, active_connections, ws, failed, env>>

\* dynamo_helpers.py:83-126
StoreUpdate(case_id, status, analysis_payload, ok) ==
  /\ now < MaxStoreCalls
  /\ LET call == [StoreCall("update_case_with_analysis", case_id, ok)
                    EXCEPT !.analysis_payload = analysis_payload]
     IN IF table_ok /\ ok
          THEN /\ now' = now + 1
               /\ store' = update_case_with_analysis(store, case_id, status,
                              analysis_payload, TextA, TextB, now')
               /\ tasks' = [tasks EXCEPT ![1] =
                              [call EXCEPT !.item = store'[case_id],
                                           !.resp = Returned(store'[case_id])]]
          ELSE /\ now' = now + 1
               /\ store' = store
               /\ tasks' = [tasks EXCEPT ![1] =
                              [call EXCEPT !.resp =
                                 Raised(StoreExc("update_case_with_analysis"))]]
  /\ UNCHANGED <<s3, table_ok, clients_ok, active_connections, ws, failed, env>>

\* dynamo_helpers.py:227-267
StoreDecision(case_id, final_status, ok) ==
  /\ now < MaxStoreCalls
  /\ LET call == StoreCall("update_case_decision", case_id, ok)
     IN IF table_ok /\ ok /\ DecisionPathValid(store, case_id)
          THEN /\ now' = now + 1
               /\ store' = update_case_decision(store, case_id, final_status, Notes, now')
               /\ tasks' = [tasks EXCEPT ![1] =
                    IF DecimalEncoderRaises(store'[case_id])
                      THEN [call EXCEPT !.resp =
                              Raised(Exc("TypeError", "update_case_decision"))]
                      ELSE [call EXCEPT !.item = store'[case_id],
                                        !.resp = Returned(store'[case_id])]]
          ELSE /\ now' = now + 1
               /\ store' = store
               /\ tasks' = [tasks EXCEPT ![1] =
                              [call EXCEPT !.resp = Raised(StoreExc("update_case_decision"))]]
  /\ UNCHANGED <<s3, table_ok, clients_ok, active_connections, ws, failed, env>>

\* dynamo_helpers.py:129-150: get_item, then the item through
\* json.dumps(item, cls=DecimalEncoder), whose default() converts only floats and
\* so raises TypeError on the Decimal boto3 returns for every stored number.
get_case(st, case_id) ==
  IF ~table_ok THEN Raised(Exc("ValueError", "get_case"))
  ELSE IF case_id \notin DOMAIN st THEN Raised(Exc("ValueError", "get_case"))
  ELSE IF DecimalEncoderRaises(st[case_id]) THEN Raised(Exc("TypeError", "get_case"))
  ELSE Returned(st[case_id])

StoreGet(case_id, ok) ==
  /\ now < MaxStoreCalls
  /\ now' = now + 1
  /\ LET call == StoreCall("get_case", case_id, ok)
     IN tasks' = [tasks EXCEPT ![1] =
          IF table_ok /\ ~ok
            THEN [call EXCEPT !.resp = Raised(Exc("ClientError", "get_case"))]
            ELSE [call EXCEPT !.resp = get_case(store, case_id),
                              !.item = get_case(store, case_id).body]]
  /\ UNCHANGED <<s3, table_ok, clients_ok, store, active_connections, ws, failed, env>>

NextStore ==
  \/ \E id \in StoreIds, ok \in BOOLEAN : StoreGet(id, ok)
  \/ \E p \in Providers, ok \in BOOLEAN : StoreCreate(p, ok)
  \/ \E id \in StoreIds, st \in StoreStatuses, a \in StorePayloads, ok \in BOOLEAN :
       StoreUpdate(id, st, a, ok)
  \/ \E id \in StoreIds, d \in DecisionStatuses, ok \in BOOLEAN : StoreDecision(id, d, ok)

InitStore ==
  /\ table_ok \in BOOLEAN
  /\ clients_ok = TRUE
  /\ store = [k \in {} |-> EmptyItem]
  /\ now = 0
  /\ tasks = [t \in Tasks |-> IdleTask]
  /\ active_connections = [ch \in {} |-> <<>>]
  /\ ws = [c \in 1..MaxConns |-> NewSocket]
  /\ failed = {}
  /\ s3 = EmptyBucket
  /\ env = [creates |-> 0, decisions |-> 0, load |-> "store"]

SpecStore == InitStore /\ [][NextStore]_vars

\* ------------------------------------------------- upload-patient-record
MaxUploads == 3
PatientIds == {"P1", "P2"}
Filenames == {"a.pdf", "b.pdf"}

\* main.py:325 and 337: the two object keys of one upload.
pdf_filename(patient_id, filename) == <<patient_id, "_", filename>>
metadata_filename(pdf) == Append(pdf, ".metadata.json")

\* main.py:312-357.  The handler awaits nothing between its three S3 calls, so
\* one request is one step.  pdf_ok, meta_ok and del_ok say whether
\* upload_fileobj, put_object and delete_object succeed; delete_object is
\* called in the except clause of put_object and is itself unprotected.
UploadPatientRecord(patient_id, filename, pdf_ok, meta_ok, del_ok) ==
  /\ env.load = "upload"
  /\ env.uploads > 0
  /\ env' = [env EXCEPT !.uploads = @ - 1]
  /\ LET pdf == pdf_filename(patient_id, filename)
         call == [IdleTask EXCEPT !.kind = "upload_patient_record", !.pc = "done",
                                  !.queue = pdf]
         fail(site, faults) ==
           [call EXCEPT !.resp = Raised(Exc("HTTPException500", site)), !.faults = faults]
     IN IF ~s3.configured
          THEN /\ s3' = s3
               /\ tasks' = [tasks EXCEPT ![1] = fail("S3_BUCKET_NAME", {})]
        ELSE IF ~pdf_ok
          THEN /\ s3' = s3
               /\ tasks' = [tasks EXCEPT ![1] = fail("upload_fileobj", {"upload_fileobj"})]
        ELSE IF meta_ok
          THEN /\ s3' = [s3 EXCEPT !.objects = @ \cup {pdf, metadata_filename(pdf)}]
               /\ tasks' = [tasks EXCEPT ![1] = [call EXCEPT !.resp = Returned(EmptyItem)]]
        ELSE IF del_ok
          THEN /\ s3' = [s3 EXCEPT !.objects = @ \ {pdf}]
               /\ tasks' = [tasks EXCEPT ![1] = fail("put_object", {"put_object"})]
          ELSE /\ s3' = [s3 EXCEPT !.objects = @ \cup {pdf}]
               /\ tasks' = [tasks EXCEPT ![1] =
                              [call EXCEPT !.resp = Raised(Exc("ClientError", "delete_object")),
                                           !.faults = {"put_object", "delete_object"}]]
  /\ UNCHANGED <<table_ok, clients_ok, store, now, active_connections, ws, failed>>

NextUpload ==
  \E patient_id \in PatientIds, filename \in Filenames, pdf_ok, meta_ok, del_ok \in BOOLEAN :
    UploadPatientRecord(patient_id, filename, pdf_ok, meta_ok, del_ok)

InitUpload ==
  /\ table_ok = TRUE
  /\ clients_ok = TRUE
  /\ store = [k \in {} |-> EmptyItem]
  /\ now = 0
  /\ tasks = [t \in Tasks |-> IdleTask]
  /\ active_connections = [ch \in {} |-> <<>>]
  /\ ws = [c \in 1..MaxConns |-> NewSocket]
  /\ failed = {}
  /\ \E configured \in BOOLEAN : s3 = [configured |-> configured, objects |-> {}]
  /\ env = [creates |-> 0, decisions |-> 0, load |-> "upload", uploads |-> MaxUploads]

SpecUpload == InitUpload /\ [][NextUpload]_vars

\* ------------------------------------------- the agent called on one text
\* aws_services.py:122-208 with an initialised client and a model that answers
\* with env.text.
ParseText ==
  /\ env.load = "text"
  /\ tasks[1].pc = "idle"
  /\ tasks' = [tasks EXCEPT ![1] =
                 [IdleTask EXCEPT !.kind = "invoke_claude_agent", !.pc = "done",
                                  !.analysis_json = ParseAgentOutput(env.text),
                                  !.final_status = FinalStatus(ParseAgentOutput(env.text)),
                                  !.analysis_payload = AnalysisPayload(ParseAgentOutput(env.text))]]
  /\ UNCHANGED <<s3, table_ok, clients_ok, store, now, active_connections, ws, failed, env>>

NextText == ParseText

InitText ==
  /\ table_ok = TRUE
  /\ clients_ok = TRUE
  /\ store = [k \in {} |-> EmptyItem]
  /\ now = 0
  /\ tasks = [t \in Tasks |-> IdleTask]
  /\ active_connections = [ch \in {} |-> <<>>]
  /\ ws = [c \in 1..MaxConns |-> NewSocket]
  /\ failed = {}
  /\ s3 = EmptyBucket
  /\ \E text \in Texts : env = [creates |-> 0, decisions |-> 0, load |-> "text", text |-> text]

SpecText == InitText /\ [][NextText]_vars

\* ================================================================ claims
Chans(bcalls) == [i \in 1..Len(bcalls) |-> bcalls[i].chan]

\* The sends a handler has attempted on a channel, in order.
RECURSIVE AttemptsOn(_, _)
AttemptsOn(attempts, channel) ==
  IF attempts = <<>> THEN <<>>
  ELSE IF Head(attempts).chan = channel
    THEN <<Head(attempts).conn>> \o AttemptsOn(Tail(attempts), channel)
  ELSE AttemptsOn(Tail(attempts), channel)

IsPrefix(a, b) == Len(a) <= Len(b) /\ \A i \in 1..Len(a) : a[i] = b[i]

\* The step in which handler t leaves the top-level except clause.
LeavesHandler(t) == tasks[t].pc = "handler" /\ tasks'[t].pc = "done"

\* ---------------------------------------------------------------- C1
\* C1 as stated: when the composed policy or clinical context is empty the
\* request fails with the not-found error and the stored case stays PENDING.
C1_EmptyContextLeavesPending ==
  [][\A t \in Tasks :
       LeavesHandler(t) /\ tasks[t].exc.site = "empty_context"
         => /\ tasks'[t].resp.code = 404
            /\ store'[tasks[t].case_id].status = "PENDING"]_vars

\* C1 amended: no analysis is attempted on an empty context; the not-found
\* error is raised inside the top-level try, so the handler attempts the
\* SYSTEM_ERROR update. When that update succeeds the request fails with the
\* not-found error and the stored case is SYSTEM_ERROR with an error analysis
\* and empty contexts; when that update fails the request fails with the
\* update's error and the case is still PENDING.
C1_EmptyContextMarksSystemError ==
  /\ [](\A t \in Tasks :
          /\ tasks[t].pc \in {"analyze", "update", "updated"}
               => tasks[t].policy_context # <<>> /\ tasks[t].clinical_context # <<>>
          /\ tasks[t].exc.site = "empty_context"
               => tasks[t].policy_context = <<>> \/ tasks[t].clinical_context = <<>>)
  /\ [][\A t \in Tasks :
          LeavesHandler(t) /\ tasks[t].exc.site = "empty_context"
            => LET id == tasks[t].case_id
               IN \/ /\ tasks'[t].resp.code = 404
                     /\ tasks'[t].resp.exc = tasks[t].exc
                     /\ store[id].status = "PENDING"
                     /\ store'[id].status = "SYSTEM_ERROR"
                     /\ "error" \in DOMAIN store'[id].analysis.obj
                     /\ store'[id].policy_context = TStr(<<>>)
                     /\ store'[id].clinical_context = TStr(<<>>)
                  \/ /\ tasks'[t].resp.code = 500
                     /\ tasks'[t].resp.exc.site = "handler_update"
                     /\ store'[id] = store[id]
                     /\ store[id].status = "PENDING"]_vars

C1_Witness ==
  \E t \in Tasks :
    /\ tasks[t].pc = "done" /\ tasks[t].exc.site = "empty_context"
    /\ tasks[t].clinical_context = <<>> /\ tasks[t].policy_context # <<>>
    /\ tasks[t].resp.code = 404
    /\ store[tasks[t].case_id].status = "SYSTEM_ERROR"

\* ---------------------------------------------------------------- C2
\* C2 as stated: every exception raised inside the try block ends with the
\* case updated to SYSTEM_ERROR with an error analysis and with the caller
\* receiving that same exception.
C2_ErrorIsRecordedAndReraised ==
  [][\A t \in Tasks :
       LeavesHandler(t)
         => /\ store'[tasks[t].case_id].status = "SYSTEM_ERROR"
            /\ "error" \in DOMAIN store'[tasks[t].case_id].analysis.obj
            /\ tasks'[t].resp.exc = tasks[t].exc]_vars

\* ---------------------------------------------------------------- C3
\* C3 as stated: a create-pre-auth request that has created its case and
\* answers with a failure leaves the stored case in a status other than
\* PENDING, whatever failed.
C3_FailureNeverLeavesPending ==
  \A t \in Tasks :
    /\ tasks[t].kind = "create" /\ tasks[t].pc = "done"
    /\ tasks[t].case_id \in DOMAIN store
    /\ tasks[t].resp.code # 200
    => store[tasks[t].case_id].status # "PENDING"

\* ---------------------------------------------------------------- C4
C4_Expected(status, provider_id) ==
  IF status = "MISSING_INFORMATION" THEN <<"provider-" \o provider_id>>
  ELSE IF status = "APPROVED_READY"
    THEN <<"insurer-queue", "provider-" \o provider_id>>
  ELSE <<>>

\* C4: after a successful persisting update the pipeline broadcasts the
\* updated case to the provider's channel alone for MISSING_INFORMATION, to
\* insurer-queue and then the provider's channel for APPROVED_READY, and to no
\* channel for any other status; before the update it broadcasts nothing.
C4_BroadcastByStatus ==
  \A t \in Tasks :
    tasks[t].kind = "create" =>
      LET tk == tasks[t]
          expected == C4_Expected(tk.final_status, tk.provider_id)
      IN /\ tk.pc \notin {"sending", "done"} => tk.bcalls = <<>>
         /\ tk.pc = "sending"
              => /\ Chans(tk.bcalls) # <<>> /\ IsPrefix(Chans(tk.bcalls), expected)
                 /\ tk.item.status = tk.final_status
         /\ tk.pc = "done" /\ tk.resp.code = 200
              => /\ Chans(tk.bcalls) = expected
                 /\ tk.resp.body.status = tk.final_status
                 /\ tk.resp.body.case_id = tk.case_id
         /\ tk.pc = "done" /\ tk.resp.code # 200 => tk.bcalls = <<>>

C4_Witness ==
  \E t \in Tasks :
    /\ tasks[t].kind = "create" /\ tasks[t].pc = "done"
    /\ tasks[t].resp.code = 200
    /\ tasks[t].resp.body.status = "APPROVED_READY"
    /\ Chans(tasks[t].bcalls) = <<"insurer-queue", "provider-" \o tasks[t].provider_id>>
    /\ \E i \in 1..Len(tasks[t].attempts) : tasks[t].attempts[i].ok

\* ---------------------------------------------------------------- C5
\* C5 as stated: create-pre-auth never writes the status APPROVED or DENIED
\* to a case, whatever the analysis adapter returned.
C5_PipelineNeverDecides ==
  [][\A t \in Tasks :
       tasks[t].kind = "create" /\ tasks[t].pc = "update" /\ tasks'[t].pc = "updated"
         => store'[tasks[t].case_id].status \notin {"APPROVED", "DENIED"}]_vars

\* ---------------------------------------------------------------- C6
C6_Allowed(old, new) ==
  \/ old = "PENDING" /\ new \in {"READY_FOR_SUBMISSION", "APPROVED_READY",
                                 "MISSING_INFORMATION", "AGENT_ERROR", "SYSTEM_ERROR"}
  \/ /\ old \in {"READY_FOR_SUBMISSION", "APPROVED_READY", "MISSING_INFORMATION",
                 "AGENT_ERROR", "SYSTEM_ERROR"}
     /\ new \in {"APPROVED", "DENIED"}

\* C6 as stated: every change of a stored case's status goes from PENDING to
\* a pipeline status or from a pipeline status to APPROVED or DENIED.
C6_StatusMonotonic ==
  [][\A id \in DOMAIN store :
       store'[id].status # store[id].status
         => C6_Allowed(store[id].status, store'[id].status)]_vars

\* ---------------------------------------------------------------- C7
\* C7 as stated: a stored case has a null analysis only while it is PENDING.
C7_NullAnalysisOnlyPending ==
  \A id \in DOMAIN store :
    store[id].analysis.isNull => store[id].status = "PENDING"

\* ---------------------------------------------------------------- C8
\* C8: a broadcast attempts one send, in registration order, to every
\* connection that was registered under the channel when it started: failed
\* sends abort nothing, and when the broadcast is over each of those
\* connections has been sent to exactly once.
C8_FanOutReachesEveryMember ==
  \A t \in Tasks :
    \A i \in 1..Len(tasks[t].bcalls) :
      LET tk == tasks[t]
          b == tk.bcalls[i]
          sent == AttemptsOn(tk.attempts, b.chan)
          over == i < Len(tk.bcalls) \/ tk.pc = "done"
      IN /\ IsPrefix(sent, b.registered)
         /\ over => sent = b.registered
         /\ ~over => /\ Len(sent) = tk.idx - 1
                     /\ tk.idx <= Len(b.registered)
                     /\ tk.cur = b.registered[tk.idx]

C8_Witness ==
  \E t \in Tasks :
    /\ tasks[t].pc = "done"
    /\ \E i, j \in 1..Len(tasks[t].attempts) :
         /\ i < j
         /\ tasks[t].attempts[i].chan = tasks[t].attempts[j].chan
         /\ ~tasks[t].attempts[i].ok
         /\ tasks[t].attempts[j].ok

\* ---------------------------------------------------------------- C9
\* C9: a connection whose send failed during a broadcast is out of the
\* channel's membership from that failure on, and no broadcast to the channel
\* that starts after the failure attempts a send to it.
C9_FailedSendIsPruned ==
  /\ \A pair \in failed :
       pair[1] \in DOMAIN active_connections
         => pair[2] \notin Members(active_connections[pair[1]])
  /\ \A t \in Tasks :
       \A i \in 1..Len(tasks[t].bcalls) :
         LET b == tasks[t].bcalls[i]
         IN \A c \in Members(b.members) : <<b.chan, c>> \notin b.failed_before

C9_Witness ==
  \E t \in Tasks :
    /\ tasks[t].pc = "done"
    /\ \E i \in 1..Len(tasks[t].bcalls) :
         LET b == tasks[t].bcalls[i]
         IN /\ b.members # <<>>
            /\ \E c \in DOMAIN ws : <<b.chan, c>> \in b.failed_before
            /\ \A j \in 1..Len(tasks[t].attempts) : tasks[t].attempts[j].ok

\* --------------------------------------------------------------- C10
\* C10: a broadcast sends only to connections registered under its channel;
\* on a channel without subscribers (unknown, or emptied) it sends nothing,
\* the request still succeeds, and the registry is left as it was.
C10_OnlyOwnChannel ==
  /\ [](\A t \in Tasks :
          /\ \A i \in 1..Len(tasks[t].attempts) :
               ws[tasks[t].attempts[i].conn].channel = tasks[t].attempts[i].chan
          /\ \A i \in 1..Len(tasks[t].bcalls) :
               tasks[t].bcalls[i].registered = <<>>
                 => /\ AttemptsOn(tasks[t].attempts, tasks[t].bcalls[i].chan) = <<>>
                    /\ tasks[t].pc = "done" => tasks[t].resp.code = 200)
  /\ [][\A t \in Tasks :
          /\ Len(tasks'[t].bcalls) > Len(tasks[t].bcalls)
          /\ tasks'[t].attempts = tasks[t].attempts
          => active_connections' = active_connections]_vars

C10_Witness ==
  \E t \in Tasks :
    /\ tasks[t].pc = "done"
    /\ \E i, j \in 1..Len(tasks[t].bcalls) :
         /\ tasks[t].bcalls[i].known /\ tasks[t].bcalls[i].registered = <<>>
         /\ tasks[t].bcalls[j].registered # <<>>
    /\ \E c \in DOMAIN ws :
         /\ ws[c].state = "open"
         /\ \A i \in 1..Len(tasks[t].bcalls) : ws[c].channel # tasks[t].bcalls[i].chan
         /\ \A i \in 1..Len(tasks[t].attempts) : tasks[t].attempts[i].conn # c

\* --------------------------------------------------------------- C11
\* The step in which handler t completes a send that failed.
SendFails(t) ==
  /\ tasks[t].pc = "sending"
  /\ Len(tasks'[t].attempts) = Len(tasks[t].attempts) + 1
  /\ ~tasks'[t].attempts[Len(tasks'[t].attempts)].ok

\* C11: after disconnect(channel, connection) the connection is not in the
\* channel's list, whatever registry the earlier connects, disconnects and
\* broadcasts left; when the connection was not in the list, or the channel is
\* unknown, the call leaves the registry as it was. This holds of the call on
\* every reachable registry and of the two places that make it: the end of a
\* WebSocket's endpoint and a failed send.
C11_DisconnectIdempotent ==
  /\ [](\A ch \in Channels, c \in DOMAIN ws :
          LET r == disconnect(active_connections, ch, c)
              present == /\ ch \in DOMAIN active_connections
                         /\ c \in Members(active_connections[ch])
          IN /\ DOMAIN r = DOMAIN active_connections
             /\ ch \in DOMAIN r => c \notin Members(r[ch])
             /\ ~present => r = active_connections
             /\ disconnect(r, ch, c) = r)
  /\ [][/\ \A c \in DOMAIN ws :
            ws[c].state = "open" /\ ws'[c].state = "closed"
              => /\ c \notin Members(Snapshot(active_connections', ws[c].channel))
                 /\ c \notin Members(Snapshot(active_connections, ws[c].channel))
                      => active_connections' = active_connections
        /\ \A t \in Tasks :
            SendFails(t)
              => /\ tasks[t].cur \notin Members(Snapshot(active_connections', tasks[t].chan))
                 /\ tasks[t].cur \notin Members(Snapshot(active_connections, tasks[t].chan))
                      => active_connections' = active_connections]_vars

\* A connection that was removed once by a failed send and once by the end of
\* its endpoint (the second removal found it absent), in a channel that still
\* has members.
C11_Witness ==
  \E c \in DOMAIN ws :
    /\ ws[c].state = "closed"
    /\ <<ws[c].channel, c>> \in failed
    /\ Snapshot(active_connections, ws[c].channel) # <<>>

\* --------------------------------------------------------------- C12
\* The connections now registered under a channel according to the history of
\* the endpoints and of the failed sends.
ExpectedMembers(ch) ==
  {c \in DOMAIN ws : ws[c].state = "open" /\ ws[c].channel = ch /\ <<ch, c>> \notin failed}

\* The step in which handler t ends the broadcast it is in.
EndsBroadcast(t) ==
  /\ tasks[t].pc = "sending"
  /\ tasks'[t].pc # "sending" \/ Len(tasks'[t].bcalls) > Len(tasks[t].bcalls)

\* C12: with connects, disconnects and other broadcasts interleaved at every
\* awaited send of a broadcast, no membership change is lost (each channel's
\* list holds, once each, exactly the connections that connected to it and
\* have neither disconnected nor failed a send), and when a broadcast ends
\* every connection that was registered under the channel when it started and
\* is still registered has been sent the payload exactly once, successfully.
C12_InterleavingsKeepFanOut ==
  /\ [](\A ch \in Channels :
          /\ Members(Snapshot(active_connections, ch)) = ExpectedMembers(ch)
          /\ Len(Snapshot(active_connections, ch)) = Cardinality(ExpectedMembers(ch)))
  /\ [][\A t \in Tasks :
          EndsBroadcast(t)
            => LET b == tasks[t].bcalls[Len(tasks[t].bcalls)]
                   sent == tasks'[t].attempts
               IN \A c \in Members(b.registered) \cap
                            Members(Snapshot(active_connections', b.chan)) :
                    /\ Cardinality({i \in 1..Len(sent) :
                                      sent[i].chan = b.chan /\ sent[i].conn = c}) = 1
                    /\ \E i \in 1..Len(sent) :
                          sent[i].chan = b.chan /\ sent[i].conn = c /\ sent[i].ok]_vars

\* A broadcast suspended after its first send while one connection joined the
\* channel and another, still to be sent to, left it.
C12_Witness ==
  \E t \in Tasks :
    /\ tasks[t].pc = "sending" /\ tasks[t].idx >= 2
    /\ \E c \in Members(Snapshot(active_connections, tasks[t].chan)) :
         c \notin Members(tasks[t].snap)
    /\ \E i \in tasks[t].idx..Len(tasks[t].snap) :
         /\ tasks[t].snap[i] \notin Members(Snapshot(active_connections, tasks[t].chan))
         /\ <<tasks[t].chan, tasks[t].snap[i]>> \notin failed

\* --------------------------------------------------------------- C13
\* C13: a failure while broadcasting never fails the request. A handler that
\* has started its broadcasts holds the case as the store returned it from
\* the persisting update, answers 200 with that case whatever the sends did,
\* and a send, failed or not, leaves the store and that case as they were.
C13_BroadcastFailureSwallowed ==
  /\ [](\A t \in Tasks :
          tasks[t].bcalls # <<>>
            => /\ tasks[t].pc \in {"sending", "done"}
               /\ tasks[t].item.case_id = tasks[t].case_id
               /\ \A i \in 1..Len(tasks[t].bcalls) : tasks[t].bcalls[i].data = tasks[t].item
               /\ tasks[t].pc = "done" => tasks[t].resp = Returned(tasks[t].item))
  /\ [][\A t \in Tasks :
          /\ tasks[t].pc \in {"update", "idle", "done"} /\ tasks'[t].pc \in {"updated", "decided"}
               => tasks'[t].item = store'[tasks'[t].case_id]
          /\ tasks[t].pc = "updated" /\ tasks'[t] # tasks[t]
               => /\ tasks'[t].item = ToFinalCaseData(tasks[t].item)
                  /\ store' = store
          /\ tasks[t].pc = "decided" /\ tasks'[t] # tasks[t]
               => tasks'[t].item = tasks[t].item /\ store' = store
          /\ tasks[t].pc = "sending" /\ tasks'[t] # tasks[t]
               => tasks'[t].item = tasks[t].item /\ store' = store]_vars

\* A create-pre-auth and a submit-decision that both answered 200 with the
\* updated case after a send of theirs had failed.
C13_Witness ==
  \E t, u \in Tasks :
    /\ tasks[t].kind = "create" /\ tasks[u].kind = "decide"
    /\ \A x \in {t, u} :
         /\ tasks[x].pc = "done" /\ tasks[x].resp.code = 200
         /\ tasks[x].resp.body.case_id = tasks[x].case_id
         /\ \E i \in 1..Len(tasks[x].attempts) : ~tasks[x].attempts[i].ok
    /\ tasks[u].resp.body.status \in {"APPROVED", "DENIED"}

\* --------------------------------------------------------------- C14
\* The step in which handler t takes a submit-decision request and runs
\* update_case_decision.
DecisionArrives(t) ==
  /\ env'.decisions < env.decisions
  /\ tasks'[t].kind = "decide"
  /\ tasks'[t] # tasks[t]

\* C14 as stated: submit-decision on an existing case (the store itself not
\* failing) sets the status to the decision and adds the notes and the
\* timestamp inside analysis, keeps every analysis key the case held with its
\* value, and leaves the other attributes of the case unchanged.
C14_DecisionFrame ==
  [][\A t \in Tasks :
       DecisionArrives(t) /\ tasks'[t].case_id \in DOMAIN store /\ tasks'[t].faults = {}
         => LET old == store[tasks'[t].case_id]
                new == store'[tasks'[t].case_id]
            IN /\ new.status = tasks'[t].final_status
               /\ ~new.analysis.isNull
               /\ {"insurer_decision_notes", "insurer_decision_at"} \subseteq DOMAIN new.analysis.obj
               /\ new.analysis.obj["insurer_decision_notes"] = JStr(Notes)
               /\ \A k \in DOMAIN old.analysis.obj :
                     k \in DOMAIN new.analysis.obj /\ new.analysis.obj[k] = old.analysis.obj[k]
               /\ \A f \in {"policy_context", "clinical_context", "patient_id", "provider_id",
                             "procedure_code", "created_at", "case_id"} : new[f] = old[f]]_vars

\* --------------------------------------------------------------- C15
\* C15: a submit-decision handler broadcasts nothing unless its update
\* succeeded, and then makes exactly one broadcast, of the updated case, on the
\* channel provider-{provider_id} of the case's provider: every send it
\* attempts is on that channel, at most one per connection.
C15_DecisionBroadcastsOnceToProvider ==
  \A t \in Tasks :
    tasks[t].kind = "decide" =>
      LET tk == tasks[t]
      IN /\ tk.pc \notin {"sending", "done"} => tk.bcalls = <<>> /\ tk.attempts = <<>>
         /\ tk.pc = "done" /\ tk.resp.code # 200 => tk.bcalls = <<>> /\ tk.attempts = <<>>
         /\ tk.pc = "sending" \/ (tk.pc = "done" /\ tk.resp.code = 200)
              => /\ Chans(tk.bcalls) = <<"provider-" \o store[tk.case_id].provider_id>>
                 /\ tk.bcalls[1].data = tk.item
                 /\ tk.item.case_id = tk.case_id
                 /\ tk.item.status = tk.final_status
                 /\ tk.item.status \in {"APPROVED", "DENIED"}
         /\ \A i \in 1..Len(tk.attempts) :
              /\ tk.attempts[i].chan = "provider-" \o store[tk.case_id].provider_id
              /\ \A j \in 1..Len(tk.attempts) :
                   tk.attempts[i].conn = tk.attempts[j].conn => i = j

\* A decision delivered to a subscriber of the provider's channel while the
\* insurer queue and another provider's channel have open subscribers that
\* were sent nothing.
C15_Witness ==
  \E t \in Tasks :
    /\ tasks[t].kind = "decide" /\ tasks[t].pc = "done" /\ tasks[t].resp.code = 200
    /\ \E i \in 1..Len(tasks[t].attempts) : tasks[t].attempts[i].ok
    /\ \E c, d \in DOMAIN ws :
         /\ ws[c].state = "open" /\ ws[c].channel = "insurer-queue"
         /\ ws[d].state = "open" /\ ws[d].channel \notin {"insurer-queue", tasks[t].bcalls[1].chan}

\* --------------------------------------------------------------- C16
\* C16 as stated: submit-decision naming a case id that is absent from the
\* store (the store itself not failing) answers 404, creates no record,
\* changes no record and broadcasts nothing.
C16_AbsentCaseIs404 ==
  [][\A t \in Tasks :
       DecisionArrives(t) /\ tasks'[t].case_id \notin DOMAIN store /\ tasks'[t].faults = {}
         => /\ tasks'[t].pc = "done"
            /\ tasks'[t].resp.code = 404
            /\ store' = store
            /\ tasks'[t].bcalls = <<>>]_vars

\* --------------------------------------------------------------- C17
\* The step in which update_case_with_analysis is called directly.
UpdateCalled ==
  /\ now' = now + 1
  /\ tasks'[1].kind = "update_case_with_analysis"
  /\ tasks'[1].faults = {}

\* C17 as stated: the store's update (the table initialised and DynamoDB not
\* failing) raises for a case id that is absent and creates no record; for a
\* stored case it replaces status, analysis, policy_context and
\* clinical_context, refreshes last_updated and keeps the other attributes.
C17_UpdateAbsentIsNotFound ==
  [][UpdateCalled /\ table_ok
       => LET id == tasks'[1].case_id
          IN IF id \notin DOMAIN store
               THEN tasks'[1].resp.code # 200 /\ store' = store
               ELSE /\ tasks'[1].resp = Returned(store'[id])
                    /\ DOMAIN store' = DOMAIN store
                    /\ \A other \in DOMAIN store \ {id} : store'[other] = store[other]
                    /\ store'[id].last_updated = now'
                    /\ store'[id].policy_context = TStr(TextA)
                    /\ store'[id].clinical_context = TStr(TextB)
                    /\ store'[id].status \in StoreStatuses
                    /\ \A f \in {"case_id", "patient_id", "provider_id", "procedure_code",
                                  "created_at"} : store'[id][f] = store[id][f]]_vars

\* --------------------------------------------------------------- C18
\* The step in which handler t takes a create-pre-auth request and runs
\* create_new_case.
CreateArrives(t) ==
  /\ env'.creates < env.creates
  /\ tasks'[t].kind = "create"
  /\ tasks'[t] # tasks[t]

\* C18: a create-pre-auth handler issues its first retrieval only after its
\* case is in the store with status PENDING (and no analysis or context yet);
\* from then on the case stays in the store. When create_new_case fails the
\* handler ends there: no case, no retrieval, no analysis, no update, no
\* broadcast.
C18_PendingBeforeRetrieval ==
  /\ [](\A t \in Tasks :
          tasks[t].kind = "create" =>
            LET tk == tasks[t]
            IN /\ tk.pc # "done" => tk.case_id \in DOMAIN store
               /\ tk.pc = "retrieve_policy"
                    => /\ store[tk.case_id].status = "PENDING"
                       /\ store[tk.case_id].analysis = JNull
                       /\ store[tk.case_id].policy_context = TNull
                       /\ store[tk.case_id].provider_id = tk.provider_id
                       /\ tk.policy_chunks = <<>> /\ tk.faults = {}
                       /\ tk.policy_generated_text = ""
               /\ tk.resp.exc.site = "create_new_case"
                    => /\ tk.pc = "done" /\ tk.resp.code = 500
                       /\ tk.case_id \notin DOMAIN store
                       /\ tk.policy_context = <<>> /\ tk.clinical_context = <<>>
                       /\ tk.faults = {} /\ tk.final_status = ""
                       /\ tk.exc = NoExc
                       /\ tk.bcalls = <<>> /\ tk.attempts = <<>>)
  /\ [][\A t \in Tasks :
          /\ CreateArrives(t)
               => \/ /\ tasks'[t].pc = "retrieve_policy"
                     /\ tasks'[t].case_id \notin DOMAIN store
                     /\ store'[tasks'[t].case_id].status = "PENDING"
                  \/ /\ tasks'[t].pc = "done"
                     /\ tasks'[t].resp.exc.site = "create_new_case"
                     /\ store' = store
          /\ tasks[t].pc \in {"retrieve_policy", "retrieve_clinical"} /\ tasks'[t] # tasks[t]
               => tasks[t].case_id \in DOMAIN store]_vars

\* A handler whose first retrieval has returned chunks while its case is
\* stored as PENDING.
C18_Witness ==
  \E t \in Tasks :
    /\ tasks[t].kind = "create" /\ tasks[t].pc = "retrieve_clinical"
    /\ tasks[t].policy_chunks # <<>>
    /\ store[tasks[t].case_id].status = "PENDING"

\* --------------------------------------------------------------- C19
\* C19 as stated: every create-pre-auth handler that has created its case
\* eventually ends; when it ends without having taken the empty-context exit
\* its case is not PENDING, the status the pipeline wrote being one of
\* READY_FOR_SUBMISSION, APPROVED_READY, MISSING_INFORMATION, AGENT_ERROR and
\* SYSTEM_ERROR; and once it has ended only a decision changes the case.
C19_RunEndsInPipelineStatus ==
  /\ \A t \in Tasks :
       [](tasks[t].kind = "create" /\ tasks[t].pc # "done"
            => <>(tasks[t].kind = "create" /\ tasks[t].pc = "done"))
  /\ [](\A t \in Tasks :
          /\ tasks[t].kind = "create" /\ tasks[t].pc = "done"
          /\ tasks[t].case_id \in DOMAIN store
          /\ tasks[t].exc.site # "empty_context"
          => store[tasks[t].case_id].status # "PENDING")
  /\ [][\A t \in Tasks :
          /\ tasks[t].kind = "create" /\ tasks[t].case_id \in DOMAIN store
          /\ store'[tasks[t].case_id] # store[tasks[t].case_id]
          => \/ /\ tasks[t].pc \in {"update", "handler"}
                /\ tasks'[t].pc \in {"updated", "done"}
                /\ store[tasks[t].case_id].status = "PENDING"
                /\ store'[tasks[t].case_id].status \in
                     {"READY_FOR_SUBMISSION", "APPROVED_READY", "MISSING_INFORMATION",
                      "AGENT_ERROR", "SYSTEM_ERROR"}
             \/ \E u \in Tasks : DecisionArrives(u)]_vars

\* The part of C19 that does hold: every handler that has taken a request
\* eventually ends.
HandlersTerminate ==
  \A t \in Tasks : [](tasks[t].pc # "idle" => <>(tasks[t].pc = "done"))

\* --------------------------------------------------------------- C20
AdapterSites == {"retrieve_from_knowledge_base", "invoke_claude_agent"}

\* What the adapters return on a failure: a retrieval whose upstream call
\* failed gave no chunks and a diagnostic message, an analysis whose model
\* call or whose parse failed gave AGENT_ERROR with an analysis.error.
FailuresAreReturned(tk) ==
  /\ "policy_retrieve" \in tk.faults
       => /\ tk.policy_generated_text = RetrieveDiagnostic
          /\ tk.policy_chunks = <<>> /\ tk.policy_context = <<>>
  /\ "policy_retrieve" \notin tk.faults => tk.policy_generated_text = ""
  /\ "clinical_retrieve" \in tk.faults
       => tk.clinical_generated_text = RetrieveDiagnostic /\ tk.clinical_context = <<>>
  /\ "clinical_retrieve" \notin tk.faults => tk.clinical_generated_text = ""
  /\ tk.faults \cap {"invoke_error", "no_json"} # {}
       => /\ tk.final_status = "AGENT_ERROR"
          /\ ~tk.analysis_payload.isNull
          /\ "error" \in DOMAIN tk.analysis_payload.obj

\* C20 as stated: no adapter call raises to the orchestrator, the clients
\* initialised or not, and every failure is returned as a result.
C20_AdaptersNeverRaise ==
  \A t \in Tasks :
    tasks[t].kind = "create"
      => /\ tasks[t].exc.site \notin AdapterSites
         /\ FailuresAreReturned(tasks[t])

\* C20 amended: with the Bedrock clients initialised no adapter call raises
\* and every upstream, invocation or parse failure is returned as a result;
\* with the clients never initialised the adapter raises ValueError to the
\* orchestrator: the first retrieval of the request does, no retrieval result
\* or analysis is ever obtained, and the top-level handler takes over.
C20_AdaptersRaiseOnlyUninitialised ==
  \A t \in Tasks :
    tasks[t].kind = "create" =>
      LET tk == tasks[t]
      IN /\ FailuresAreReturned(tk)
         /\ clients_ok => tk.exc.site \notin AdapterSites
         /\ tk.exc.site \in AdapterSites => ~clients_ok /\ tk.exc.type = "ValueError"
         /\ ~clients_ok /\ tk.pc \notin {"retrieve_policy", "done"}
              => /\ tk.pc = "handler"
                 /\ tk.exc = Exc("ValueError", "retrieve_from_knowledge_base")
         /\ ~clients_ok /\ tk.pc = "done" /\ tk.case_id \in DOMAIN store
              => /\ tk.exc = Exc("ValueError", "retrieve_from_knowledge_base")
                 /\ tk.resp.code = 500
                 /\ tk.faults = {} /\ tk.final_status = ""

\* A request whose policy retrieval returned chunks and whose clinical
\* retrieval failed upstream: the failure came back as an empty result with
\* its message, and the handler went on to its empty-context exit.
C20_Witness ==
  \E t \in Tasks :
    /\ tasks[t].kind = "create" /\ clients_ok
    /\ tasks[t].faults = {"clinical_retrieve"}
    /\ tasks[t].policy_context # <<>>
    /\ tasks[t].clinical_generated_text = RetrieveDiagnostic
    /\ tasks[t].exc.site = "empty_context"

\* ---------------------------------------------------------------------- C21
\* The positions (1-based) of the first opening and the last closing brace of
\* a text, stated without find and rfind.
C21_Opens(text) == {i \in 1..Len(text) : text[i] = "{"}
C21_Closes(text) == {i \in 1..Len(text) : text[i] = "}"}
C21_Min(S) == CHOOSE i \in S : \A j \in S : i <= j
C21_Max(S) == CHOOSE i \in S : \A j \in S : j <= i
C21_HasObject(text) ==
  /\ C21_Opens(text) # {}
  /\ C21_Closes(text) # {}
  /\ C21_Min(C21_Opens(text)) < C21_Max(C21_Closes(text))
C21_NoJson == AgentError("Agent failed to produce valid JSON output.")
C21_Expected(text) ==
  IF C21_HasObject(text)
    THEN LET sub == SubSeq(text, C21_Min(C21_Opens(text)), C21_Max(C21_Closes(text)))
         IN IF json_loads(sub).ok THEN json_loads(sub).val ELSE C21_NoJson
    ELSE C21_NoJson
C21_Before == {<<>>} \cup {<<k>> : k \in Tokens \ {"{"}}
C21_After == {<<>>} \cup {<<k>> : k \in Tokens \ {"}"}}

\* C21: analyze parses exactly the substring from the first "{" to the last
\* "}" of the model's text, inclusive; text put before the first "{" or after
\* the last "}" never changes the result; and a text with no "{", no "}", or
\* whose last "}" is not after its first "{" gives an AGENT_ERROR result, with
\* no exception.
C21_ParsesBraceSpan ==
  (env.load = "text" /\ tasks[1].pc = "done") =>
    /\ tasks[1].exc = NoExc
    /\ tasks[1].analysis_json = C21_Expected(env.text)
    /\ \A p \in C21_Before, q \in C21_After :
         ParseAgentOutput(p \o env.text \o q) = tasks[1].analysis_json
    /\ ~C21_HasObject(env.text) =>
         /\ tasks[1].analysis_json = C21_NoJson
         /\ tasks[1].final_status = "AGENT_ERROR"

\* An object with prose on both sides has been parsed.
C21_Witness ==
  /\ env.load = "text" /\ tasks[1].pc = "done"
  /\ env.text = <<"x", "{", "s", "}", "x">>
  /\ tasks[1].analysis_json = Parsed(TRUE, "MISSING_INFORMATION", FALSE, JNull, EmptyObj)

\* ---------------------------------------------------------------------- C22
\* get_case is called (the table initialised, DynamoDB answering) on the case
\* that the call before it updated with a numeric analysis.
C22_ReadsBack ==
  /\ table_ok
  /\ tasks[1].kind = "update_case_with_analysis" /\ tasks[1].resp.code = 200
  /\ \E k \in DOMAIN tasks[1].analysis_payload.obj :
       tasks[1].analysis_payload.obj[k].t \in {"int", "float"}
  /\ tasks'[1].kind = "get_case" /\ tasks'[1].faults = {}
  /\ tasks'[1].case_id = tasks[1].case_id

\* C22 as stated: a number written into a case's analysis by the store's
\* update and read back with get_case comes back: the read succeeds and the
\* analysis it returns holds the original value, still as a number.
C22_NumbersRoundTrip ==
  [][C22_ReadsBack =>
       /\ tasks'[1].resp.code = 200
       /\ tasks'[1].resp.body.analysis = tasks[1].analysis_payload]_vars

\* ---------------------------------------------------------------------- C23
C23_Primaries == {k \in s3.objects : Len(k) = 3}

\* C23 as stated: when the sidecar write of an upload fails the call fails
\* and the primary file it uploaded is not in the bucket when it returns, so
\* every primary file in the bucket has its sidecar metadata document.
C23_NoOrphanPrimary ==
  env.load = "upload" =>
    /\ \A k \in C23_Primaries : metadata_filename(k) \in s3.objects
    /\ (tasks[1].kind = "upload_patient_record" /\ "put_object" \in tasks[1].faults) =>
         /\ tasks[1].resp.code # 200
         /\ tasks[1].queue \notin s3.objects

\* ---------------------------------------------------------------------- C24
\* The step in which task t's update_case_with_analysis commits.
C24_Persists(t) == tasks[t].pc = "update" /\ tasks'[t].pc = "updated"

\* The object the agent returned, key by key.
C24_Object(r) ==
  (IF r.hasStatus THEN "status" :> JStr(r.status) ELSE EmptyObj) @@ r.rest

\* C24: createAndAnalyze takes the status from the result's status field
\* (AGENT_ERROR when the field is absent) and the payload from its analysis
\* field (the whole result object when there is no analysis key), and persists
\* exactly these together with the two composed contexts.
C24_PersistsStatusAndPayload ==
  [][\A t \in Tasks : C24_Persists(t) =>
       LET tk == tasks[t]
           r == tk.analysis_json
           status == IF r.hasStatus THEN r.status ELSE "AGENT_ERROR"
           payload == IF r.hasAnalysis THEN r.analysis ELSE JObj(C24_Object(r))
           old == store[tk.case_id]
           new == store'[tk.case_id]
       IN /\ new.status = status
          /\ new.analysis = AnalysisDecimal(payload)
          /\ new.policy_context = TStr(tk.policy_context)
          /\ new.clinical_context = TStr(tk.clinical_context)
          /\ tk.policy_context # <<>> /\ tk.clinical_context # <<>>
          /\ \A f \in DOMAIN old \ {"status", "analysis", "policy_context",
                                     "clinical_context", "last_updated"} :
               new[f] = old[f]
          /\ DOMAIN new = DOMAIN old
          /\ \A other \in DOMAIN store \ {tk.case_id} : store'[other] = store[other]]_vars

\* A result with neither status nor analysis has been persisted as AGENT_ERROR
\* with the whole object as payload.
C24_Witness ==
  \E t \in Tasks :
    /\ tasks[t].pc = "updated"
    /\ ~tasks[t].analysis_json.hasStatus /\ ~tasks[t].analysis_json.hasAnalysis
    /\ store[tasks[t].case_id].status = "AGENT_ERROR"
    /\ store[tasks[t].case_id].analysis = JObj("procedure_analyzed" :> JStr(ProcedureCode))

\* ---------------------------------------------------------------------- C25
\* Task t's own store write commits in this step.
C25_Commits(t) ==
  /\ tasks[t].pc \notin {"updated", "decided"}
  /\ tasks'[t].pc \in {"updated", "decided"}

\* Task t dispatches a broadcast in this step.
C25_Dispatches(t) == Len(tasks'[t].bcalls) > Len(tasks[t].bcalls)

\* C25: a handler dispatches a broadcast only after its store write has
\* committed, a handler on a failing path dispatches none, and the payload of
\* every broadcast carries the status that the committed write stored.
C25_BroadcastAfterCommit ==
  /\ [](\A t \in Tasks : tasks[t].bcalls # <<>> =>
          /\ tasks[t].kind \in {"create", "decide"}
          /\ tasks[t].exc = NoExc
          /\ "store" \notin tasks[t].faults
          /\ tasks[t].resp.code \in {0, 200}
          /\ tasks[t].case_id \in DOMAIN store
          /\ \A i \in 1..Len(tasks[t].bcalls) :
               /\ tasks[t].bcalls[i].data.case_id = tasks[t].case_id
               /\ tasks[t].bcalls[i].data.status = tasks[t].final_status)
  /\ [][\A t \in Tasks :
          /\ C25_Commits(t) =>
               /\ store' # store
               /\ store'[tasks'[t].case_id].status = tasks'[t].final_status
               /\ tasks'[t].bcalls = <<>>
          /\ C25_Dispatches(t) =>
               /\ tasks[t].pc \in {"updated", "decided", "sending"}
               /\ store' = store
          /\ (tasks[t].pc = "handler" \/ tasks'[t].resp.code \notin {0, 200}) =>
               tasks'[t].bcalls = <<>>]_vars

\* A create and a decision have each broadcast the status their write stored.
C25_Witness ==
  \E t, u \in Tasks :
    /\ tasks[t].kind = "create" /\ tasks[t].bcalls # <<>>
    /\ tasks[t].bcalls[1].data.status = "MISSING_INFORMATION"
    /\ tasks[u].kind = "decide" /\ tasks[u].bcalls # <<>>
    /\ tasks[u].bcalls[1].data.status = "DENIED"

\* ---------------------------------------------------------------------- C26
\* How often connection c stands in a list.
C26_Count(list, c) == Cardinality({i \in 1..Len(list) : list[i] = c})

\* A live connection: its endpoint has connected and not disconnected, and no
\* send to it has failed.
C26_Live(c) == ws[c].state = "open" /\ <<ws[c].channel, c>> \notin failed

\* C26: every live connection is a member of exactly one channel and stands
\* in that channel's list exactly once, and a connection that is not live is
\* in no list; so one broadcast never sends twice to one connection.  A
\* connection leaves on disconnect or on its first failed send and is not
\* added again.
C26_OneChannelOnce ==
  /\ [](/\ \A c \in DOMAIN ws, ch \in DOMAIN active_connections :
            C26_Count(active_connections[ch], c) =
              IF C26_Live(c) /\ ch = ws[c].channel THEN 1 ELSE 0
        /\ \A c \in DOMAIN ws : C26_Live(c) => ws[c].channel \in DOMAIN active_connections
        /\ \A t \in Tasks :
             /\ \A c \in DOMAIN ws : C26_Count(tasks[t].snap, c) <= 1
             /\ \A i, j \in 1..Len(tasks[t].attempts) :
                  (/\ tasks[t].attempts[i].chan = tasks[t].attempts[j].chan
                   /\ tasks[t].attempts[i].conn = tasks[t].attempts[j].conn) => i = j)
  /\ [][\A c \in DOMAIN ws, ch \in DOMAIN active_connections' :
          (/\ c \in Members(active_connections'[ch])
           /\ (ch \notin DOMAIN active_connections
                 \/ c \notin Members(active_connections[ch])))
            => ws[c].state = "new" /\ ws'[c].state = "open" /\ ws'[c].channel = ch]_vars

\* Two connections share a channel and a broadcast has tried both: one is
\* live and was sent the payload, the other's send failed and it has left.
C26_Witness ==
  \E c, d \in DOMAIN ws, t \in Tasks :
    /\ c # d /\ ws[c].channel = ws[d].channel
    /\ C26_Live(c) /\ ws[d].state = "open" /\ ~C26_Live(d)
    /\ Members(active_connections[ws[c].channel]) = {c}
    /\ \E i, j \in 1..Len(tasks[t].attempts) :
         /\ tasks[t].attempts[i] = [chan |-> ws[c].channel, conn |-> c, ok |-> TRUE]
         /\ tasks[t].attempts[j] = [chan |-> ws[d].channel, conn |-> d, ok |-> FALSE]

\* ---------------------------------------------------------------------- C27
\* The cases a step writes: those it creates and those whose record it changes.
C27_Written == {id \in DOMAIN store' : id \notin DOMAIN store \/ store'[id] # store[id]}

\* The handler that takes the step.
C27_Acts(t) == tasks'[t] # tasks[t]

\* A createAndAnalyze invocation that has created its case and not yet returned.
C27_Running(t) == tasks[t].kind = "create" /\ tasks[t].pc \notin {"idle", "done"}

\* C27: with createAndAnalyze invocations running concurrently, every store
\* write of an invocation (the creation, the analysis update and the
\* SYSTEM_ERROR update) targets the case it created itself, no two invocations
\* hold the same case, and a case leaves PENDING only in a step of the
\* invocation that created it.
C27_OwnCaseOnly ==
  /\ [](\A t, u \in Tasks :
          (C27_Running(t) /\ C27_Running(u) /\ tasks[t].case_id = tasks[u].case_id) => t = u)
  /\ [][\A t \in Tasks : (C27_Acts(t) /\ tasks'[t].kind = "create") =>
          /\ C27_Written \subseteq {tasks'[t].case_id}
          /\ \A id \in C27_Written :
               IF id \in DOMAIN store
                 THEN C27_Running(t) /\ tasks[t].case_id = id
                      /\ tasks[t].pc \in {"update", "handler"}
                 ELSE ~C27_Running(t) /\ store'[id].status = "PENDING"]_vars
  /\ [][\A id \in DOMAIN store :
          (store[id].status = "PENDING" /\ store'[id].status # "PENDING") =>
            \E t \in Tasks :
              /\ C27_Acts(t) /\ C27_Running(t) /\ tasks[t].case_id = id
              /\ \A u \in Tasks \ {t} : tasks'[u] = tasks[u]]_vars

\* Two invocations overlap and each has moved its own case out of PENDING:
\* one by its analysis update, the other by the SYSTEM_ERROR update.
C27_Witness ==
  \E t, u \in Tasks :
    /\ t # u
    /\ tasks[t].kind = "create" /\ tasks[t].pc = "updated"
    /\ tasks[u].kind = "create" /\ tasks[u].pc = "done" /\ tasks[u].exc # NoExc
    /\ tasks[t].case_id = 1 /\ tasks[u].case_id = 2
    /\ tasks[u].resp.exc = tasks[u].exc
    /\ store[1].status = "MISSING_INFORMATION"
    /\ store[2].status = "SYSTEM_ERROR"

\* ---------------------------------------------------------------------- C28
\* Handler t has returned 200 and one of its sends reached connection c on the
\* provider's channel.
C28_Delivered(t, c) ==
  /\ tasks[t].pc = "done" /\ tasks[t].resp.code = 200
  /\ \E i \in 1..Len(tasks[t].attempts) :
       tasks[t].attempts[i] =
         [chan |-> ProviderChannel(tasks[t].item.provider_id), conn |-> c, ok |-> TRUE]

\* The decision of u overlapped the broadcast phase of create t: the create
\* fanned out to the insurer queue first, and when it then dispatched its
\* broadcast to the provider's channel, subscriber c had already received the
\* decision.
C28_Overlapped(t, u, c) ==
  /\ Len(tasks[t].bcalls) = 2
  /\ tasks[t].bcalls[1].chan = InsurerQueue
  /\ tasks[t].bcalls[1].members # <<>>
  /\ c \in DOMAIN tasks[t].bcalls[2].received_before
  /\ tasks[t].bcalls[2].received_before[c] =
       [case_id |-> tasks[u].case_id, status |-> tasks[u].final_status]

\* C28 as stated: the updates of one case reach a subscriber of the provider's
\* channel in the order of their commits: once the createAndAnalyze of a case
\* and a submitDecision for it have both returned and both delivered to the
\* subscriber, the last update the subscriber received carries the status the
\* store holds for the case.
C28_DeliveredInCommitOrder ==
  \A t, u \in Tasks, c \in DOMAIN ws :
    (/\ tasks[t].kind = "create" /\ tasks[u].kind = "decide"
     /\ tasks[u].case_id = tasks[t].case_id
     /\ C28_Delivered(t, c) /\ C28_Delivered(u, c)
     /\ C28_Overlapped(t, u, c))
      => /\ ws[c].received.case_id = tasks[t].case_id
         /\ ws[c].received.status = store[tasks[t].case_id].status

====
